---------------------------- MODULE Spec2Model ----------------------------
(***************************************************************************)
(* A model of funscript-rs (src/src/funscript.rs): the FScript document,   *)
(* its strict serde schema (parse / serialize), load_funscript,            *)
(* save_funscript, get_pt and apply_rdp.                                   *)
(*                                                                         *)
(* Indexes are 0-based as in the Rust code; a Rust Vec v is the TLA+       *)
(* sequence whose element v[i] is at position i + 1.                       *)
(***************************************************************************)
EXTENDS Integers, Sequences, FiniteSets, TLC

VARIABLES
    script,   \* the caller's FScript (the `s` of the tests)
    fs,       \* the file system: path -> file content, or NoFile
    ret,      \* what the last call returned
    lastOp,   \* the last call and its arguments
    idxs,     \* apply_rdp's local `idxs`, as left by its last run
    ops       \* number of calls made so far

vars == <<script, fs, ret, lastOp, idxs, ops>>

(***************************************************************************)
(* Bounds of the model.                                                    *)
(***************************************************************************)
MaxLen == 4        \* longest action list in an input file
MaxEpsNum == 3     \* epsilon ranges over 0/EpsDen .. MaxEpsNum/EpsDen
MaxOps == 2        \* calls per behaviour of Spec

\* epsilon is an f64; the model takes the multiples of 1/2, which are exact
\* in f64, as the pair (numerator, EpsDen).
EpsDen == 2
\* the coordinates of the points of input files
PosValues == {0, 1}
AtValues == {0, 1, 2}
Epsilons == 0..MaxEpsNum

Abs(a) == IF a < 0 THEN -a ELSE a

(***************************************************************************)
(* FSPoint and the Point2<i32> of apply_rdp.                               *)
(***************************************************************************)
FSPoint(pos, at) == [pos |-> pos, at |-> at]

Point2(x, y) == [x |-> x, y |-> y]

InputPoints == {FSPoint(p, a) : p \in PosValues, a \in AtValues}

RECURSIVE SeqsUpTo(_, _)
SeqsUpTo(S, n) ==
    IF n = 0 THEN {<< >>}
    ELSE LET shorter == SeqsUpTo(S, n - 1)
         IN  shorter \cup {Append(s, e) : s \in {t \in shorter : Len(t) = n - 1}, e \in S}

(***************************************************************************)
(* ramer_douglas_peucker::rdp.  The crate is a dependency and is not under *)
(* src/; it is modelled from the description of the algorithm: for a range *)
(* [lo, hi], find the interior point of maximum perpendicular distance     *)
(* from the line joining the endpoints; if that distance exceeds epsilon   *)
(* keep the point and recurse on both halves, otherwise discard every      *)
(* interior point.  Distances are compared exactly: with d = cross/length, *)
(* d > n/EpsDen  iff  cross^2 * EpsDen^2 > n^2 * length^2.  For the        *)
(* coordinates and epsilons of the model the f64 computation agrees with   *)
(* the exact one.                                                          *)
(***************************************************************************)
\* |a*x - b*y + c| for the line through p1 and p2
Cross(p1, p2, p) ==
    LET a == p2.y - p1.y
        b == p2.x - p1.x
        c == (p2.x * p1.y) - (p2.y * p1.x)
    IN  Abs((a * p.x) - (b * p.y) + c)

SqLength(p1, p2) ==
    ((p2.x - p1.x) * (p2.x - p1.x)) + ((p2.y - p1.y) * (p2.y - p1.y))

\* the squared distance of p from the line through p1 and p2, as the
\* fraction <<numerator, denominator>>; from p1 itself when p1 = p2
SqDistance(p1, p2, p) ==
    IF SqLength(p1, p2) = 0
    THEN <<SqLength(p1, p), 1>>
    ELSE <<Cross(p1, p2, p) * Cross(p1, p2, p), SqLength(p1, p2)>>

\* mutant: the comparison turned round
BelowEpsilon(d, eps) == d[1] * EpsDen * EpsDen < eps * eps * d[2]

\* distance > eps / EpsDen
ExceedsEpsilon(d, eps) == d[1] * EpsDen * EpsDen > eps * eps * d[2]

\* the first interior index of [lo, hi] at maximum distance (0-based)
Farthest(points, lo, hi) ==
    LET D == [i \in (lo + 1)..(hi - 1) |->
                SqDistance(points[lo + 1], points[hi + 1], points[i + 1])[1]]
    IN  CHOOSE i \in DOMAIN D :
            /\ \A j \in DOMAIN D : D[j] <= D[i]
            /\ \A j \in (lo + 1)..(i - 1) : D[j] < D[i]

RECURSIVE RdpRange(_, _, _, _)
\* the interior indexes of [lo, hi] that are kept
RdpRange(points, lo, hi, eps) ==
    IF hi - lo < 2 THEN {}
    ELSE LET far == Farthest(points, lo, hi)
             d == SqDistance(points[lo + 1], points[hi + 1], points[far + 1])
         IN  IF ExceedsEpsilon(d, eps)
             THEN RdpRange(points, lo, far, eps) \cup {far}
                      \cup RdpRange(points, far, hi, eps)
             ELSE {}

RECURSIVE SortedSeq(_)
SortedSeq(S) ==
    IF S = {} THEN << >>
    ELSE LET m == CHOOSE x \in S : \A y \in S : x <= y
         IN  <<m>> \o SortedSeq(S \ {m})

\* the indexes to keep, ascending
rdp(points, eps) ==
    IF Len(points) < 3
    THEN [i \in 1..Len(points) |-> i - 1]
    ELSE SortedSeq({0, Len(points) - 1} \cup RdpRange(points, 0, Len(points) - 1, eps))

(***************************************************************************)
(* apply_rdp, funscript.rs 158-181.                                        *)
(***************************************************************************)
\* mutant: the coordinates taken the other way round
ToPointsSwapped(actions) ==
    [i \in 1..Len(actions) |-> Point2(actions[i].pos, actions[i].at)]

\* lines 159-165: points.push(Point2 { x: pt.at, y: pt.pos })
ToPoints(actions) == [i \in 1..Len(actions) |-> Point2(actions[i].at, actions[i].pos)]

\* mutant: the last index is not copied
ReducedShort(points, keep) ==
    [i \in 1..(IF Len(keep) = 0 THEN 0 ELSE Len(keep) - 1) |-> points[keep[i] + 1]]

\* lines 169-172: reduced.push(points[idx])
Reduced(points, keep) == [i \in 1..Len(keep) |-> points[keep[i] + 1]]

\* mutant: at and pos written the other way round
FromPointsSwapped(reduced) ==
    [i \in 1..Len(reduced) |-> FSPoint(reduced[i].x, reduced[i].y)]

\* lines 174-180: actions.clear(); actions.push(FSPoint { at: pt.x, pos: pt.y })
FromPoints(reduced) == [i \in 1..Len(reduced) |-> FSPoint(reduced[i].y, reduced[i].x)]


(***************************************************************************)
(* JSON.  A file holds text; the model keeps the tree it denotes (or       *)
(* Malformed for text that is no JSON).  Every value is a record of the     *)
(* same fields: its kind t and, by kind, b, s, n, a (array) or o (object).  *)
(* A number keeps what decides how serde_json reads it: whether the        *)
(* literal is a float literal, and its value m * 10^e.  Literals of the    *)
(* model have e = 0, or a one-digit m # 0.                                 *)
(***************************************************************************)
NoNum == [float |-> FALSE, m |-> 0, e |-> 0]
J(t, b, s, n, a, o) == [t |-> t, b |-> b, s |-> s, n |-> n, a |-> a, o |-> o]
JNull == J("null", FALSE, "", NoNum, << >>, << >>)
JBool(b) == J("bool", b, "", NoNum, << >>, << >>)
JStr(s) == J("str", FALSE, s, NoNum, << >>, << >>)
JInt(m, e) == J("num", FALSE, "", [float |-> FALSE, m |-> m, e |-> e], << >>, << >>)
JFloat(m, e) == J("num", FALSE, "", [float |-> TRUE, m |-> m, e |-> e], << >>, << >>)
JArr(a) == J("arr", FALSE, "", NoNum, a, << >>)
JObj(o) == J("obj", FALSE, "", NoNum, << >>, o)
Malformed == J("malformed", FALSE, "", NoNum, << >>, << >>)
NoFile == J("nofile", FALSE, "", NoNum, << >>, << >>)

Ok(v) == [ok |-> TRUE, v |-> v]
Err == [ok |-> FALSE, v |-> 0]

\* i32: |m * 10^e| <= 2147483647
FitsI32(n) == n.e < 9 \/ (n.e = 9 /\ Abs(n.m) <= 2)
\* i64: |m * 10^e| <= 9223372036854775807
FitsI64(n) == n.e <= 18
\* f32: |m * 10^e| <= 3.4028235e38
FitsF32(n) == n.e < 38 \/ (n.e = 38 /\ Abs(n.m) <= 3)

RECURSIVE Pow10(_)
Pow10(e) == IF e = 0 THEN 1 ELSE 10 * Pow10(e - 1)

\* an f32 of the document: finite m * 10^e, or an infinity of sign m
F32(m, e) == [c |-> "finite", m |-> m, e |-> e]
F32Inf(sign) == [c |-> "inf", m |-> sign, e |-> 0]
\* an i64 of the document
I64(m, e) == [m |-> m, e |-> e]

\* an integer literal that fits u64 (or i64 when negative) is read as an
\* integer; any other number is read as an f64
ReadAsInteger(n) ==
    /\ ~n.float
    /\ IF n.m < 0 THEN FitsI64(n) ELSE n.e < 19 \/ (n.e = 19 /\ n.m = 1)

RECURSIVE ValueOf(_)
\* serde_json::Value read from a tree: the tree, each number as it is read
ValueOf(j) ==
    CASE j.t = "num" -> IF ReadAsInteger(j.n) THEN j ELSE JFloat(j.n.m, j.n.e)
      [] j.t = "arr" -> JArr([i \in 1..Len(j.a) |-> ValueOf(j.a[i])])
      [] j.t = "obj" -> JObj([k \in DOMAIN j.o |-> ValueOf(j.o[k])])
      [] OTHER -> j

(***************************************************************************)
(* Deserialize of the primitive types and of Vec<i32>, Vec<String>,        *)
(* Vec<Value> (serde, serde_json).                                         *)
(***************************************************************************)
DecodePrim(ty, j) ==
    CASE ty = "String" -> IF j.t = "str" THEN Ok(j.s) ELSE Err
      [] ty = "bool" -> IF j.t = "bool" THEN Ok(j.b) ELSE Err
      [] ty = "i32" ->
            IF j.t = "num" /\ ReadAsInteger(j.n) /\ FitsI32(j.n)
            THEN Ok(j.n.m * Pow10(j.n.e)) ELSE Err
      [] ty = "i64" ->
            IF j.t = "num" /\ ReadAsInteger(j.n) /\ FitsI64(j.n)
            THEN Ok(I64(j.n.m, j.n.e)) ELSE Err
      [] ty = "f32" ->
            \* every number is accepted and cast with `as f32`
            IF j.t # "num" THEN Err
            ELSE IF FitsF32(j.n) THEN Ok(F32(j.n.m, j.n.e))
            ELSE Ok(F32Inf(IF j.n.m < 0 THEN -1 ELSE 1))
      [] ty = "Value" -> Ok(ValueOf(j))
      [] OTHER -> Err

ElemType(ty) ==
    CASE ty = "Vec<i32>" -> "i32"
      [] ty = "Vec<String>" -> "String"
      [] ty = "Vec<Value>" -> "Value"
      [] OTHER -> "none"

\* the first failing element fails the whole; otherwise the values
Collect(d) ==
    IF \E i \in DOMAIN d : ~d[i].ok THEN Err ELSE Ok([i \in DOMAIN d |-> d[i].v])

DecodeVec(ty, j) ==
    IF j.t # "arr" THEN Err
    ELSE Collect([i \in 1..Len(j.a) |-> DecodePrim(ElemType(ty), j.a[i])])

DecodeLeaf(ty, j) ==
    IF ElemType(ty) # "none" THEN DecodeVec(ty, j) ELSE DecodePrim(ty, j)

(***************************************************************************)
(* Serialize of the same types (serde_json): a non-finite float is written *)
(* as null.                                                                *)
(***************************************************************************)
EncodePrim(ty, x) ==
    CASE ty = "String" -> JStr(x)
      [] ty = "bool" -> JBool(x)
      [] ty = "i32" -> JInt(x, 0)
      [] ty = "i64" -> JInt(x.m, x.e)
      [] ty = "f32" -> IF x.c = "finite" THEN JFloat(x.m, x.e) ELSE JNull
      [] ty = "Value" -> x

EncodeLeaf(ty, x) ==
    IF ElemType(ty) # "none"
    THEN JArr([i \in 1..Len(x) |-> EncodePrim(ElemType(ty), x[i])])
    ELSE EncodePrim(ty, x)

(***************************************************************************)
(* The derived schemas: JSON key -> Rust field and type.  The keys are the *)
(* camelCase of the field names, but for the three renamed fields of       *)
(* OFSMetadata.                                                            *)
(***************************************************************************)
F(field, ty) == [field |-> field, ty |-> ty]

FSPointTable == [pos |-> F("pos", "i32"), at |-> F("at", "i32")]

SimulatorPresetsTable ==
    [name |-> F("name", "String"), fullRange |-> F("full_range", "bool"),
     direction |-> F("direction", "i32"), rotation |-> F("rotation", "f32"),
     length |-> F("length", "f32"), width |-> F("width", "f32"),
     offset |-> F("offset", "String"), color |-> F("color", "String")]

OFSMetadataTable ==
    [bookmarks |-> F("bookmarks", "Vec<i32>"), chapters |-> F("chapters", "Vec<String>"),
     creator |-> F("creator", "String"), description |-> F("description", "String"),
     duration |-> F("duration", "i32"), license |-> F("license", "String"),
     notes |-> F("notes", "String"), performers |-> F("performers", "Vec<String>"),
     script_url |-> F("script_url", "String"), tags |-> F("tags", "Vec<String>"),
     title |-> F("title", "String"), type |-> F("ofs_type", "String"),
     video_url |-> F("video_url", "String")]

FScriptTable ==
    [version |-> F("version", "String"), inverted |-> F("inverted", "bool"),
     range |-> F("range", "i32"), bookmark |-> F("bookmark", "i32"),
     lastPosition |-> F("last_position", "i64"),
     graphDuration |-> F("graph_duration", "i32"),
     speedRatio |-> F("speed_ratio", "f32"),
     injectionSpeed |-> F("injection_speed", "i32"),
     injectionBias |-> F("injection_bias", "f32"),
     scriptingMode |-> F("scripting_mode", "i32"),
     simulatorPresets |-> F("simulator_presets", "Vec<SimulatorPresets>"),
     activeSimulator |-> F("active_simulator", "i32"),
     reductionTolerance |-> F("reduction_tolerance", "f32"),
     reductionStretch |-> F("reduction_stretch", "f32"),
     clips |-> F("clips", "Vec<Value>"),
     actions |-> F("actions", "Vec<FSPoint>"),
     rawActions |-> F("raw_actions", "Vec<FSPoint>"),
     metadata |-> F("metadata", "OFSMetadata")]

\* a table with its inverse: Rust field -> JSON key
Schema(table) ==
    [of |-> table,
     key |-> [f \in {table[k].field : k \in DOMAIN table} |->
                CHOOSE k \in DOMAIN table : table[k].field = f]]

FSPointSchema == Schema(FSPointTable)
SimulatorPresetsSchema == Schema(SimulatorPresetsTable)
OFSMetadataSchema == Schema(OFSMetadataTable)
FScriptSchema == Schema(FScriptTable)

\* impl Default for FScript
FScriptDefault ==
    [version |-> "", inverted |-> FALSE, range |-> -1, bookmark |-> -1,
     last_position |-> I64(-1, 0), graph_duration |-> -1,
     speed_ratio |-> F32(-1, 0), injection_speed |-> -1,
     injection_bias |-> F32(-1, 0), scripting_mode |-> -1,
     simulator_presets |-> << >>, active_simulator |-> -1,
     reduction_tolerance |-> F32(-1, 0), reduction_stretch |-> F32(-1, 0),
     clips |-> << >>, actions |-> << >>, raw_actions |-> << >>,
     metadata |->
        [bookmarks |-> << >>, chapters |-> << >>, creator |-> "",
         description |-> "", duration |-> -1, license |-> "", notes |-> "",
         performers |-> << >>, script_url |-> "", tags |-> << >>, title |-> "",
         ofs_type |-> "", video_url |-> ""]]

(***************************************************************************)
(* Deserialize of the structs.  deny_unknown_fields: a key outside the     *)
(* schema fails.  FSPoint, SimulatorPresets and OFSMetadata carry no       *)
(* `default`: a missing key fails.  FScript carries `default`: a missing   *)
(* key takes the field of FScript::default().                              *)
(***************************************************************************)
\* the struct built from the decoded keys d: a failing key fails the
\* whole; a field whose key is not among them takes its value in default
Build(schema, d, default) ==
    IF \E k \in DOMAIN d : ~d[k].ok THEN Err
    ELSE Ok([f \in DOMAIN schema.key |->
               IF schema.key[f] \in DOMAIN d THEN d[schema.key[f]].v ELSE default[f]])

\* mutant: without deny_unknown_fields, an unknown key is skipped
DecodeStructLenient(schema, j) ==
    IF j.t # "obj" THEN Err
    ELSE IF ~(DOMAIN schema.of \subseteq DOMAIN j.o) THEN Err
    ELSE Build(schema,
               [k \in DOMAIN schema.of |-> DecodeLeaf(schema.of[k].ty, j.o[k])], << >>)

DecodeStruct(schema, j) ==
    IF j.t # "obj" THEN Err
    ELSE IF ~(DOMAIN j.o \subseteq DOMAIN schema.of) THEN Err
    ELSE IF ~(DOMAIN schema.of \subseteq DOMAIN j.o) THEN Err
    ELSE Build(schema,
               [k \in DOMAIN j.o |-> DecodeLeaf(schema.of[k].ty, j.o[k])], << >>)

DecodeStructVec(schema, j) ==
    IF j.t # "arr" THEN Err
    ELSE Collect([i \in 1..Len(j.a) |-> DecodeStruct(schema, j.a[i])])

DecodeField(ty, j) ==
    CASE ty = "Vec<FSPoint>" -> DecodeStructVec(FSPointSchema, j)
      [] ty = "Vec<SimulatorPresets>" -> DecodeStructVec(SimulatorPresetsSchema, j)
      [] ty = "OFSMetadata" -> DecodeStruct(OFSMetadataSchema, j)
      [] OTHER -> DecodeLeaf(ty, j)

\* serde_json::from_str::<FScript>
DecodeFScript(j) ==
    IF j.t # "obj" THEN Err
    ELSE IF ~(DOMAIN j.o \subseteq DOMAIN FScriptSchema.of) THEN Err
    ELSE Build(FScriptSchema,
               [k \in DOMAIN j.o |-> DecodeField(FScriptSchema.of[k].ty, j.o[k])],
               FScriptDefault)

(***************************************************************************)
(* Serialize of the structs: every field is written, under its key.        *)
(***************************************************************************)
EncodeStruct(schema, x) ==
    JObj([k \in DOMAIN schema.of |-> EncodeLeaf(schema.of[k].ty, x[schema.of[k].field])])

EncodeStructVec(schema, xs) == JArr([i \in 1..Len(xs) |-> EncodeStruct(schema, xs[i])])

EncodeField(ty, x) ==
    CASE ty = "Vec<FSPoint>" -> EncodeStructVec(FSPointSchema, x)
      [] ty = "Vec<SimulatorPresets>" -> EncodeStructVec(SimulatorPresetsSchema, x)
      [] ty = "OFSMetadata" -> EncodeStruct(OFSMetadataSchema, x)
      [] OTHER -> EncodeLeaf(ty, x)

\* serde_json::to_string_pretty(script)
EncodeFScript(x) ==
    JObj([k \in DOMAIN FScriptSchema.of |->
            EncodeField(FScriptSchema.of[k].ty, x[FScriptSchema.of[k].field])])

(***************************************************************************)
(* Paths are sequences of characters.                                      *)
(***************************************************************************)
Extension == <<".", "f", "u", "n", "s", "c", "r", "i", "p", "t">>

InPath == <<"i">> \o Extension                       \* i.funscript
OutPath == <<"o">> \o Extension                      \* o.funscript
BarePath == Extension                                \* .funscript
UpperPath == <<"o", ".", "F", "U", "N", "S", "C", "R", "I", "P", "T">>
NoDotPath == <<"o", "f", "u", "n", "s", "c", "r", "i", "p", "t">>
BackupPath == OutPath \o <<".", "b", "a", "k">>      \* o.funscript.bak
JsonPath == <<"o", ".", "j", "s", "o", "n">>         \* o.json

Paths == {InPath, OutPath, BarePath, UpperPath, NoDotPath, BackupPath, JsonPath}

\* str::ends_with
ends_with(path, suffix) ==
    /\ Len(path) >= Len(suffix)
    /\ SubSeq(path, Len(path) - Len(suffix) + 1, Len(path)) = suffix

(***************************************************************************)
(* What a call returns.                                                    *)
(***************************************************************************)
RetOk == [tag |-> "Ok", what |-> "", idx |-> 0]
\* FileReadError(std::io::Error) of the operating system
IoError == [tag |-> "FileReadError", what |-> "os", idx |-> 0]
\* lines 138-141
InvalidExtension == [tag |-> "FileReadError", what |-> "invalid file extension", idx |-> 0]
JsonError == [tag |-> "JsonError", what |-> "", idx |-> 0]
PointError(what, idx) == [tag |-> "PointError", what |-> what, idx |-> idx]

Call(op, arg) == [op |-> op, arg |-> arg]

(***************************************************************************)
(* The operations, as functions of the document and the file system.       *)
(***************************************************************************)
\* line 131: `?` on the result of serde_json::from_str
from_str(json) == IF json.ok THEN <<RetOk, json.v>> ELSE <<JsonError, FScriptDefault>>

\* load_funscript, lines 129-133: <<returned value, loaded document>>
load_funscript(files, path) ==
    IF files[path] = NoFile THEN <<IoError, FScriptDefault>>
    ELSE from_str(DecodeFScript(files[path]))

\* mutant: the suffix without its dot
valid_extension_nodot(path) == ends_with(path, Tail(Extension))

\* line 137
valid_extension(path) == ends_with(path, Extension)

\* save_funscript, lines 136-147: <<returned value, file system after>>.
\* std::fs::write either writes the whole text, or fails leaving the file
\* as it was, or fails having truncated or partly written it.
save_funscript(files, path, s, io) ==
    IF ~valid_extension(path) THEN <<InvalidExtension, files>>
    ELSE CASE io = "written" -> <<RetOk, [files EXCEPT ![path] = EncodeFScript(s)]>>
           [] io = "failed" -> <<IoError, files>>
           [] io = "partial" -> <<IoError, [files EXCEPT ![path] = Malformed]>>

IoOutcomes == {"written", "failed", "partial"}

\* mutant: off by one
out_of_range_gt(s, idx) == idx > Len(s.actions)

\* line 151
out_of_range(s, idx) == idx >= Len(s.actions)

\* get_pt, lines 150-155, and the caller's writes through the returned
\* &mut FSPoint (as in tests::test_get_set_pt, line 229)
get_pt(s, idx, pt) ==
    IF out_of_range(s, idx) THEN <<PointError("get", idx), s>>
    ELSE <<RetOk, [s EXCEPT !.actions[idx + 1] = pt]>>

\* mutant: the reduced list replaces the backup as well
apply_rdp_both(s, eps) ==
    LET points == ToPoints(s.actions)
        keep == rdp(points, eps)
    IN  <<keep, [s EXCEPT !.actions = FromPoints(Reduced(points, keep)),
                          !.raw_actions = FromPoints(Reduced(points, keep))]>>

\* apply_rdp, lines 158-181: <<idxs, document after>>
apply_rdp(s, eps) ==
    LET points == ToPoints(s.actions)
        keep == rdp(points, eps)
    IN  <<keep, [s EXCEPT !.actions = FromPoints(Reduced(points, keep))]>>

(***************************************************************************)
(* Input files.                                                            *)
(***************************************************************************)
Restrict(r, K) == [k \in K |-> r[k]]
With(r, k, v) == [x \in DOMAIN r \cup {k} |-> IF x = k THEN v ELSE r[x]]
\* the array with key k set to v in its i-th object
ElemWith(arr, i, k, v) == JArr([arr.a EXCEPT ![i] = JObj(With(@.o, k, v))])
ElemWithout(arr, i, k) == JArr([arr.a EXCEPT ![i] = JObj(Restrict(@.o, DOMAIN @.o \ {k}))])

\* a document with every field off its default
SampleDoc ==
    [version |-> "1.0", inverted |-> TRUE, range |-> 100, bookmark |-> 7,
     last_position |-> I64(6, 9), graph_duration |-> 30,
     speed_ratio |-> F32(1, 0), injection_speed |-> 3,
     injection_bias |-> F32(0, 0), scripting_mode |-> 0,
     simulator_presets |->
        <<[name |-> "p", full_range |-> TRUE, direction |-> 1,
           rotation |-> F32(0, 0), length |-> F32(2, 0), width |-> F32(1, 0),
           offset |-> "o", color |-> "c"]>>,
     active_simulator |-> 0,
     reduction_tolerance |-> F32(1, 0), reduction_stretch |-> F32(1, 0),
     clips |-> <<JObj([name |-> JStr("clip"), at |-> JArr(<<JInt(1, 0), JFloat(2, 0)>>)]),
                 JNull>>,
     actions |-> <<FSPoint(0, 0), FSPoint(50, 1), FSPoint(100, 2)>>,
     raw_actions |-> <<FSPoint(0, 0), FSPoint(50, 1), FSPoint(100, 2)>>,
     metadata |->
        [bookmarks |-> <<1>>, chapters |-> <<"ch">>, creator |-> "cr",
         description |-> "d", duration |-> 2610, license |-> "l", notes |-> "n",
         performers |-> <<"pf">>, script_url |-> "s", tags |-> <<"tg">>,
         title |-> "ti", ofs_type |-> "ty", video_url |-> "v"]]

Full == EncodeFScript(SampleDoc).o

TopKeys == DOMAIN FScriptTable
PoolKeys == {"range", "lastPosition", "speedRatio", "actions", "metadata"}

KeySubsets ==
    (SUBSET PoolKeys) \cup {TopKeys \ {k} : k \in TopKeys}
        \cup {{k} : k \in TopKeys} \cup {TopKeys}

\* recognized keys only, correctly typed
SubsetFiles == {JObj(Restrict(Full, K)) : K \in KeySubsets}

UnknownTopKeys == {"extra", "last_position", "Range"}
StructArrays == {"actions", "rawActions", "simulatorPresets"}

\* one key outside the recognized set: <<file, the same file without it>>
UnknownKeyCases ==
    {<<JObj(With(Restrict(Full, K), u, JInt(0, 0))), JObj(Restrict(Full, K))>> :
        K \in {{}, PoolKeys, TopKeys}, u \in UnknownTopKeys}
    \cup {<<JObj(With(Full, a, ElemWith(Full[a], 1, "extra", JInt(0, 0)))), JObj(Full)>> :
        a \in StructArrays}
    \cup {<<JObj(With(Full, "metadata", JObj(With(Full.metadata.o, u, JStr(""))))), JObj(Full)>> :
        u \in {"extra", "scriptUrl"}}

UnknownKeyFiles == {c[1] : c \in UnknownKeyCases}

\* a present metadata object or array element lacking keys
MissingKeyFiles ==
    {JObj(With(Restrict(Full, K), "metadata",
               JObj(Restrict(Full.metadata.o, DOMAIN OFSMetadataTable \ M)))) :
        K \in {TopKeys},
        M \in {{k} : k \in DOMAIN OFSMetadataTable} \cup {DOMAIN OFSMetadataTable}}
    \cup {JObj(With(Full, a, ElemWithout(Full[a], 1, k))) :
        a \in {"actions", "rawActions"}, k \in {"pos", "at"}}

NumLits ==
    {JInt(5, 0), JInt(-1, 0), JInt(2, 9), JInt(3, 9), JInt(9, 18), JInt(1, 19),
     JInt(2, 19), JFloat(5, 0), JFloat(3, 38), JFloat(4, 38), JFloat(1, 39),
     JFloat(-1, 39)}

\* numbers at and beyond the widths, and wrongly typed values
ValueFiles ==
    {JObj(With(Restrict(Full, K), k, v)) :
        K \in {{}},
        k \in {"range", "lastPosition", "speedRatio"},
        v \in NumLits \cup {JStr("x"), JNull}}
    \cup {JObj([clips |-> v]) :
        v \in {JArr(<<JInt(2, 19), JStr("x")>>), JArr(<<JFloat(1, 39)>>), JNull}}

\* action lists
PointFiles ==
    {JObj([actions |-> EncodeField("Vec<FSPoint>", S),
           rawActions |-> EncodeField("Vec<FSPoint>", S)]) :
        S \in SeqsUpTo(InputPoints, 1)}

InputFiles ==
    {Malformed} \cup SubsetFiles \cup UnknownKeyFiles \cup MissingKeyFiles
        \cup ValueFiles \cup PointFiles

(***************************************************************************)
(* The state machine: a caller holding one FScript, calling the public     *)
(* functions in any order.                                                 *)
(***************************************************************************)
Init ==
    /\ script = FScriptDefault
    /\ \E f \in InputFiles : fs = [p \in Paths |-> IF p = InPath THEN f ELSE NoFile]
    /\ ret = RetOk
    /\ lastOp = Call("new", 0)
    /\ idxs = << >>
    /\ ops = 0

Load(path) ==
    /\ ops < MaxOps
    /\ \E r \in {load_funscript(fs, path)} :
           /\ script' = IF r[1] = RetOk THEN r[2] ELSE script
           /\ ret' = r[1]
    /\ lastOp' = Call("load_funscript", path)
    /\ ops' = ops + 1
    /\ UNCHANGED <<fs, idxs>>

Save(path, io) ==
    /\ ops < MaxOps
    /\ LET r == save_funscript(fs, path, script, io)
       IN  ret' = r[1] /\ fs' = r[2]
    /\ lastOp' = Call("save_funscript", path)
    /\ ops' = ops + 1
    /\ UNCHANGED <<script, idxs>>

GetPt(idx, pt) ==
    /\ ops < MaxOps
    /\ LET r == get_pt(script, idx, pt)
       IN  ret' = r[1] /\ script' = r[2]
    /\ lastOp' = Call("get_pt", [idx |-> idx, pt |-> pt])
    /\ ops' = ops + 1
    /\ UNCHANGED <<fs, idxs>>

ApplyRdp(eps) ==
    /\ ops < MaxOps
    /\ LET r == apply_rdp(script, eps)
       IN  idxs' = r[1] /\ script' = r[2]
    /\ ret' = RetOk
    /\ lastOp' = Call("apply_rdp", eps)
    /\ ops' = ops + 1
    /\ UNCHANGED fs

\* a field edit by the caller, as in the tests: s.bookmark = 100000
TestBookmark == 100000
SetBookmark ==
    /\ ops < MaxOps
    /\ script' = [script EXCEPT !.bookmark = TestBookmark]
    /\ ret' = RetOk
    /\ lastOp' = Call("edit", 0)
    /\ ops' = ops + 1
    /\ UNCHANGED <<fs, idxs>>

NewPoints == {FSPoint(1, 0)}

\* the caller makes at most MaxOps calls
Next ==
    \/ \E p \in {InPath, OutPath, JsonPath} : Load(p)
    \/ \E p \in Paths, io \in IoOutcomes : Save(p, io)
    \/ \E i \in 0..MaxLen, pt \in NewPoints : GetPt(i, pt)
    \/ \E e \in Epsilons : ApplyRdp(e)
    \/ SetBookmark

Spec == Init /\ [][Next]_vars

(***************************************************************************)
(* Simplification alone: the document is loaded from a file holding an     *)
(* action list and its backup, and apply_rdp is called on it.              *)
(***************************************************************************)
RdpFiles ==
    {JObj([actions |-> EncodeField("Vec<FSPoint>", S),
           rawActions |-> EncodeField("Vec<FSPoint>", S)]) :
        S \in SeqsUpTo(InputPoints, MaxLen)}

InitRdp ==
    /\ \E f \in RdpFiles :
          /\ fs = [p \in Paths |-> IF p = InPath THEN f ELSE NoFile]
          /\ script = DecodeFScript(f).v
    /\ ret = RetOk
    /\ lastOp = Call("load_funscript", InPath)
    /\ idxs = << >>
    /\ ops = 0

\* one call: what it returns is again one of the input lists
NextRdp ==
    /\ ops = 0
    /\ \E e \in Epsilons : ApplyRdp(e)

SpecRdp == InitRdp /\ [][NextRdp]_vars

(***************************************************************************)
(* Properties.                                                             *)
(***************************************************************************)
Last(q) == q[Len(q)]
Called(op) == lastOp.op = op

\* C1: apply_rdp, get_pt (with writes through the returned handle) and
\* save_funscript never change rawActions: after any of these calls
\* raw_actions is element for element what it was before the call.
C1_RawActionsUntouched ==
    [][lastOp'.op \in {"apply_rdp", "get_pt", "save_funscript"}
          => script'.raw_actions = script.raw_actions]_vars

\* apply_rdp has dropped a point of a loaded document whose backup is not empty
C1_Witness ==
    /\ Called("apply_rdp")
    /\ Len(script.raw_actions) = 3
    /\ Len(script.actions) = 2

\* C2: for a non-empty action list and any epsilon >= 0, after apply_rdp the
\* first and the last element of actions are the first and the last element
\* of the list before the call.
C2_EndpointsKept ==
    [][lastOp'.op = "apply_rdp" /\ Len(script.actions) > 0
          => /\ Len(script'.actions) > 0
             /\ script'.actions[1] = script.actions[1]
             /\ Last(script'.actions) = Last(script.actions)]_vars

\* apply_rdp has reduced a list of MaxLen points to its two endpoints
C2_Witness ==
    /\ Called("apply_rdp")
    /\ Len(script.raw_actions) = MaxLen
    /\ Len(script.actions) = 2
    /\ script.actions[1] = script.raw_actions[1]
    /\ script.actions[1] # script.actions[2]

\* C3: simplification is monotone in epsilon: the list apply_rdp leaves is
\* no longer than what any smaller epsilon leaves from the same list, and no
\* shorter than what any larger epsilon leaves.
C3_MonotoneInEpsilon ==
    [][lastOp'.op = "apply_rdp"
          => \A e \in Epsilons :
                /\ e <= lastOp'.arg =>
                      Len(script'.actions) <= Len(apply_rdp(script, e)[2].actions)
                /\ e >= lastOp'.arg =>
                      Len(script'.actions) >= Len(apply_rdp(script, e)[2].actions)]_vars

\* apply_rdp has left fewer points than a smaller, positive epsilon leaves,
\* and more than a larger one leaves, from the same list
C3_Witness ==
    /\ Called("apply_rdp")
    /\ LET before == [script EXCEPT !.actions = script.raw_actions]
       IN  /\ \E e \in 1..(lastOp.arg - 1) :
                 Len(apply_rdp(before, e)[2].actions) > Len(script.actions)
           /\ \E e \in (lastOp.arg + 1)..MaxEpsNum :
                 Len(apply_rdp(before, e)[2].actions) < Len(script.actions)

\* the squared distance of p from the line through a and b in the
\* (at, pos) plane is at most (eps / EpsDen)^2; from a when a = b
WithinTolerance(p, a, b, eps) ==
    LET area == ((b.at - a.at) * (p.pos - a.pos)) - ((b.pos - a.pos) * (p.at - a.at))
        base == ((b.at - a.at) * (b.at - a.at)) + ((b.pos - a.pos) * (b.pos - a.pos))
        away == ((p.at - a.at) * (p.at - a.at)) + ((p.pos - a.pos) * (p.pos - a.pos))
    IN  IF base = 0
        THEN away * EpsDen * EpsDen <= eps * eps
        ELSE area * area * EpsDen * EpsDen <= eps * eps * base

\* no point of the list is on the line through an earlier and a later point
NoPointOnLine(S) ==
    \A i, j, k \in 1..Len(S) : i < j /\ j < k => ~WithinTolerance(S[j], S[i], S[k], 0)

\* C9 as stated: apply_rdp with epsilon = 0 leaves actions element for
\* element as it was.
C9_EpsilonZeroKeepsAll ==
    [][lastOp'.op = "apply_rdp" /\ lastOp'.arg = 0
          => script'.actions = script.actions]_vars

\* C9 amended: apply_rdp with epsilon = 0 leaves actions as it was when no
\* point of the list lies on the line through an earlier and a later point
\* (a point at distance exactly 0 does not exceed epsilon and is dropped).
C9_EpsilonZeroKeepsOffLine ==
    [][lastOp'.op = "apply_rdp" /\ lastOp'.arg = 0 /\ NoPointOnLine(script.actions)
          => script'.actions = script.actions]_vars

\* apply_rdp has run with epsilon = 0 on MaxLen points, none on such a line
C9_Witness ==
    /\ Called("apply_rdp")
    /\ lastOp.arg = 0
    /\ Len(script.raw_actions) = MaxLen
    /\ NoPointOnLine(script.raw_actions)
    /\ script.actions = script.raw_actions

\* C10: what apply_rdp leaves is a subsequence of the list before the call,
\* in order and with every point unchanged, and every dropped point is within
\* epsilon of the line through the nearest kept point before it and the
\* nearest kept point after it.
C10_DroppedWithinTolerance ==
    [][lastOp'.op = "apply_rdp"
          => LET S == script.actions
                 K == idxs'
                 R == script'.actions
             IN  /\ Len(R) = Len(K)
                 /\ \A i \in 1..Len(K) : K[i] \in 0..(Len(S) - 1) /\ R[i] = S[K[i] + 1]
                 /\ \A i \in 1..(Len(K) - 1) : K[i] < K[i + 1]
                 /\ \A j \in 0..(Len(S) - 1) :
                       (\A i \in 1..Len(K) : K[i] # j)
                          => \E i \in 1..(Len(K) - 1) :
                                /\ K[i] < j /\ j < K[i + 1]
                                /\ WithinTolerance(S[j + 1], S[K[i] + 1],
                                                   S[K[i + 1] + 1], lastOp'.arg)]_vars

\* apply_rdp has kept an interior point and dropped another, off the line
C10_Witness ==
    /\ Called("apply_rdp")
    /\ lastOp.arg > 0
    /\ Len(script.raw_actions) = MaxLen
    /\ Len(idxs) = 3
    /\ \E j \in 2..(MaxLen - 1) :
          /\ \A i \in 1..Len(idxs) : idxs[i] # j - 1
          /\ ~WithinTolerance(script.raw_actions[j], script.raw_actions[j - 1],
                              script.raw_actions[j + 1], 0)

HasFunscriptSuffix(path) ==
    \E n \in 0..Len(path) : path = SubSeq(path, 1, n) \o Extension

\* C7: save_funscript on a path that does not end in ".funscript" returns
\* the invalid-extension error and leaves every file as it was; a path that
\* ends in ".funscript" is never refused for its extension.
C7_ExtensionGuard ==
    [][lastOp'.op = "save_funscript"
          => IF HasFunscriptSuffix(lastOp'.arg)
             THEN ret' # InvalidExtension
             ELSE ret' = InvalidExtension /\ fs' = fs]_vars

\* a loaded document was refused at a path ending in "funscript" without
\* the dot
C7_Witness ==
    /\ Called("save_funscript")
    /\ lastOp.arg = NoDotPath
    /\ ret = InvalidExtension
    /\ script # FScriptDefault
    /\ fs[NoDotPath] = NoFile

\* the keys of the format
RecognizedKeys ==
    {"version", "inverted", "range", "bookmark", "lastPosition", "graphDuration",
     "speedRatio", "injectionSpeed", "injectionBias", "scriptingMode",
     "simulatorPresets", "activeSimulator", "reductionTolerance",
     "reductionStretch", "clips", "actions", "rawActions", "metadata"}

ElementKeys(a) ==
    IF a = "simulatorPresets"
    THEN {"name", "fullRange", "direction", "rotation", "length", "width",
          "offset", "color"}
    ELSE {"pos", "at"}

\* the file is an object with a key outside the recognized set, at the top
\* level or in an element of actions, rawActions or simulatorPresets
HasUnknownKey(j) ==
    /\ j.t = "obj"
    /\ \/ ~(DOMAIN j.o \subseteq RecognizedKeys)
       \/ \E a \in StructArrays \cap DOMAIN j.o :
             /\ j.o[a].t = "arr"
             /\ \E i \in 1..Len(j.o[a].a) :
                   /\ j.o[a].a[i].t = "obj"
                   /\ ~(DOMAIN j.o[a].a[i].o \subseteq ElementKeys(a))

\* C6: load_funscript of a file with a key outside the recognized set, at
\* the top level or inside an element of actions, rawActions or
\* simulatorPresets, fails with the JSON error and yields no document; the
\* same file without that key loads.
C6_UnknownKeyRejected ==
    [][lastOp'.op = "load_funscript"
          => LET path == lastOp'.arg
             IN  /\ HasUnknownKey(fs[path]) => ret' = JsonError /\ script' = script
                 /\ \A c \in UnknownKeyCases :
                       fs[path] = c[1] /\ HasUnknownKey(c[1])
                          => /\ ~HasUnknownKey(c[2])
                             /\ load_funscript([fs EXCEPT ![path] = c[2]], path)[1] = RetOk]_vars

\* a file whose only fault is a key inside an element of actions was refused
C6_Witness ==
    /\ Called("load_funscript")
    /\ ret = JsonError
    /\ fs[lastOp.arg].t = "obj"
    /\ DOMAIN fs[lastOp.arg].o = RecognizedKeys
    /\ "extra" \in DOMAIN fs[lastOp.arg].o.actions.a[1].o
    /\ script = FScriptDefault

\* the file is an object holding some of the sample's keys with the sample's
\* values, its metadata (when present) holding some of the sample's metadata
SubsetOfSample(j) ==
    /\ j.t = "obj"
    /\ \A k \in DOMAIN j.o :
          /\ k \in DOMAIN Full
          /\ IF k = "metadata"
             THEN /\ j.o[k].t = "obj"
                  /\ \A m \in DOMAIN j.o[k].o :
                        /\ m \in DOMAIN Full.metadata.o
                        /\ j.o[k].o[m] = Full.metadata.o[m]
             ELSE j.o[k] = Full[k]

\* the sample's value of each field whose key is present, the default of
\* each other field
Filled(j) ==
    [f \in DOMAIN FScriptDefault |->
        IF FScriptSchema.key[f] \notin DOMAIN j.o THEN FScriptDefault[f]
        ELSE IF f # "metadata" THEN SampleDoc[f]
        ELSE [g \in DOMAIN FScriptDefault.metadata |->
                IF OFSMetadataSchema.key[g] \in DOMAIN j.o.metadata.o
                THEN SampleDoc.metadata[g] ELSE FScriptDefault.metadata[g]]]

\* C5: a file holding any subset of the recognized keys, correctly typed, at
\* the top level and inside a present metadata object alike, loads, and
\* every absent field has its default.
C5_DefaultFill ==
    [][lastOp'.op = "load_funscript" /\ SubsetOfSample(fs[lastOp'.arg])
          => ret' = RetOk /\ script' = Filled(fs[lastOp'.arg])]_vars

\* C4: a document reads back from its own serialization field for field,
\* and the file a successful save wrote loads as the document saved.
C4_RoundTrip ==
    /\ LET back == DecodeFScript(EncodeFScript(script))
       IN  back.ok /\ back.v = script
    /\ Called("save_funscript") /\ ret = RetOk
          => load_funscript(fs, lastOp.arg) = <<RetOk, script>>

=============================================================================
